---------------------------- MODULE Spec2Model ----------------------------
(***************************************************************************)
(* Model of the streaming endpoint of "GA Solutions/GA1/Q28": the two      *)
(* validating Flask servers src/app.py and streaming_llm_api.py.           *)
(*                                                                         *)
(* Python strings are modelled as sequences of tokens.  A token is a       *)
(* non-empty TLA+ string that is either a run of whitespace or a run of    *)
(* characters none of which is whitespace; the Python string is the        *)
(* concatenation of the tokens (Str).  Two texts denote the same Python    *)
(* string iff their Str values are equal.  len, strip, split, join and +   *)
(* are computed on this representation as Python computes them.           *)
(***************************************************************************)
EXTENDS Integers, Sequences, FiniteSets, TLC

VARIABLES
    variant,     \* which server file is running: "app" or "standalone"
    req,         \* req[c]: the raw request body received on connection c
    pc,          \* pc[c]: where the handler / generator of connection c stands
    resp,        \* resp[c]: status, content type and headers of the response
    trace,       \* trace[c]: frames handed to the transport and pacing waits, in order
    chunks,      \* chunks[c]: the chunk list captured by generate()
    idx,         \* idx[c]: number of chunks the for loop of generate() has taken
    ran,         \* ran[c]: generate_streaming_content and chunk_text were called
    text,        \* argument of a direct call of chunk_text
    chunk_size,  \* argument of a direct call of chunk_text
    called,      \* the direct call has returned
    ret          \* its return value

vars == <<variant, req, pc, resp, trace, chunks, idx, ran, text, chunk_size, called, ret>>
connVars == <<variant, req, pc, resp, trace, chunks, idx, ran>>
callVars == <<text, chunk_size, called, ret>>

(***************************************************************************)
(* Bounds of the model.                                                    *)
(***************************************************************************)
MaxTextLen == 6      \* tokens of a text passed directly to chunk_text
MaxChunkSize == 3    \* largest chunk_size passed directly to chunk_text
MaxPad == 1          \* leading / trailing blanks put around a prompt

(***************************************************************************)
(* Python str operations.                                                  *)
(***************************************************************************)
Whitespace == {" ", "\n", "\n\n", " \n\n", "\t"}

IsSpace(tok) == tok \in Whitespace

\* s.split() reads the string left to right; the state of the scan is
\* <<words closed so far, word being read ("" if none)>>.
SplitStep(st, tok) ==
    IF IsSpace(tok)
    THEN IF st[2] = "" THEN st ELSE <<Append(st[1], st[2]), "">>
    ELSE <<st[1], st[2] \o tok>>

\* " ".join(words), one word further
JoinStep(acc, w) == IF acc = <<>> THEN <<w>> ELSE acc \o <<" ", w>>

\* One step of the left-to-right scans below.
ScanStep(op, st, x) ==
    CASE op = "str" -> st \o x
      [] op = "len" -> st + Len(x)
      [] op = "split" -> SplitStep(st, x)
      [] op = "join" -> JoinStep(st, x)

\* for x in xs: st = ScanStep(op, st, x) -- evaluated by halving, so that
\* the evaluation depth is logarithmic in the number of iterations (drawing
\* the halves and the state after the first half from singleton sets only
\* makes each be evaluated once, before the second half starts).
RECURSIVE Scan(_, _, _)
Scan(op, xs, st) ==
    IF Len(xs) = 0 THEN st
    ELSE IF Len(xs) = 1 THEN ScanStep(op, st, xs[1])
    ELSE LET h == Len(xs) \div 2 IN
         CHOOSE out \in
             {Scan(op, r, mid) :
                  r \in {SubSeq(xs, h + 1, Len(xs))},
                  mid \in {Scan(op, l, st) : l \in {SubSeq(xs, 1, h)}}} : TRUE

\* the Python string as one flat string
Str(t) == Scan("str", t, "")

\* len(s)
len(t) == Scan("len", t, 0)

\* the least and the greatest element of a non-empty set of numbers
Least(S) == CHOOSE i \in S : \A j \in S : i <= j
Greatest(S) == CHOOSE i \in S : \A j \in S : j <= i

\* s.strip(): leading and trailing whitespace removed (keep, the positions
\* of the non-whitespace tokens, is drawn from a singleton set so that it is
\* evaluated once)
strip(t) ==
    CHOOSE out \in
        {IF keep = {} THEN <<>> ELSE SubSeq(t, Least(keep), Greatest(keep)) :
             keep \in {{i \in 1..Len(t) : ~IsSpace(t[i])}}} : TRUE

\* s.split(): the maximal runs of non-whitespace characters, in order
split(t) ==
    LET st == Scan("split", t, <<<<>>, "">>)
    IN  IF st[2] = "" THEN st[1] ELSE Append(st[1], st[2])

\* " ".join(words)
join(words) == Scan("join", words, <<>>)

\* 'x' * n
RECURSIVE Rep(_, _)
Rep(s, n) ==
    IF n = 0 THEN ""
    ELSE IF n % 2 = 1 THEN s \o Rep(s, n - 1)
    ELSE LET h == Rep(s, n \div 2) IN h \o h

(***************************************************************************)
(* chunk_text (src/app.py 36-54, streaming_llm_api.py 51-70).              *)
(* The loop state is <<chunks, current_chunk, current_length>>.            *)
(***************************************************************************)
\* a plausible slip: the word that closes a chunk is not carried over
ChunkStepDropsWord(st, word, size) ==
    IF st[3] + Len(word) > size /\ st[2] # <<>>
    THEN <<Append(st[1], join(st[2])), <<>>, 0>>
    ELSE <<st[1], Append(st[2], word), st[3] + Len(word) + 1>>

\* the chunk closed as soon as the next word fills it to the limit (>= for
\* >): a plausible slip
ChunkStepClosesEarly(st, word, size) ==
    IF st[3] + Len(word) >= size /\ st[2] # <<>>
    THEN <<Append(st[1], join(st[2])), <<word>>, Len(word)>>
    ELSE <<st[1], Append(st[2], word), st[3] + Len(word) + 1>>

\* the running length reset to 0 when a chunk is closed, the word that
\* opens the next chunk not counted: a plausible slip
ChunkStepForgetsLength(st, word, size) ==
    IF st[3] + Len(word) > size /\ st[2] # <<>>
    THEN <<Append(st[1], join(st[2])), <<word>>, 0>>
    ELSE <<st[1], Append(st[2], word), st[3] + Len(word) + 1>>

\* the space between two words not counted in the running length: a
\* plausible slip
ChunkStepNoSeparator(st, word, size) ==
    IF st[3] + Len(word) > size /\ st[2] # <<>>
    THEN <<Append(st[1], join(st[2])), <<word>>, Len(word)>>
    ELSE <<st[1], Append(st[2], word), st[3] + Len(word)>>

\* body of "for word in words"
ChunkStep(st, word, size) ==
    IF st[3] + Len(word) > size /\ st[2] # <<>>
    THEN <<Append(st[1], join(st[2])), <<word>>, Len(word)>>
    ELSE <<st[1], Append(st[2], word), st[3] + Len(word) + 1>>

\* the last chunk appended without the test "if current_chunk": a plausible
\* slip
ChunkFlushAlways(st) == Append(st[1], join(st[2]))

\* "if current_chunk: chunks.append(...)" followed by "return chunks"
ChunkFlush(st) ==
    IF st[2] # <<>> THEN Append(st[1], join(st[2])) ELSE st[1]

\* for word in words: <loop body> -- evaluated by halving, as Scan
RECURSIVE ChunkLoop(_, _, _)
ChunkLoop(words, st, size) ==
    IF Len(words) = 0 THEN st
    ELSE IF Len(words) = 1 THEN ChunkStep(st, words[1], size)
    ELSE LET h == Len(words) \div 2 IN
         CHOOSE out \in
             {ChunkLoop(r, mid, size) :
                  r \in {SubSeq(words, h + 1, Len(words))},
                  mid \in {ChunkLoop(l, st, size) : l \in {SubSeq(words, 1, h)}}} : TRUE

chunk_text(t, size) ==
    ChunkFlush(ChunkLoop(split(t), <<<<>>, <<>>, 0>>, size))

(***************************************************************************)
(* Direct calls of chunk_text.                                            *)
(***************************************************************************)
Alphabet == {"a", "b", " "}

Texts == UNION {[1..n -> Alphabet] : n \in 0..MaxTextLen}

ChunkSizes == -1..MaxChunkSize

CallChunkText ==
    /\ ~called
    /\ called' = TRUE
    /\ ret' = chunk_text(text, chunk_size)
    /\ UNCHANGED <<text, chunk_size>>
    /\ UNCHANGED connVars

InitChunk ==
    /\ text \in Texts
    /\ chunk_size \in ChunkSizes
    /\ called = FALSE
    /\ ret = <<>>
    /\ variant = "app"
    /\ req = <<>> /\ pc = <<>> /\ resp = <<>> /\ trace = <<>>
    /\ chunks = <<>> /\ idx = <<>> /\ ran = <<>>

NextChunk == CallChunkText

SpecChunk == InitChunk /\ [][NextChunk]_vars

(***************************************************************************)
(* generate_streaming_content: the f-string of each server, as the tokens  *)
(* before and after {prompt}.  The bullet character of the standalone      *)
(* server's text is written "*" (one character, not whitespace).           *)
(***************************************************************************)
AppHead ==
  <<"Based", " ", "on", " ", "your", " ", "prompt", " ", "'">>
AppTail ==
  <<"',", " ", "here's", " ", "a", " ", "comprehensive", " ", "response:", "\n\n", "The", " ",
    "streaming", " ", "API", " ", "enables", " ", "real-time", " ", "content", " ",
    "delivery,", " ", "significantly", " ", "improving", " ", "user", " ", "experience", " ",
    "by", " ", "providing", " ", "immediate", " ", "feedback.", " ", "This", " ",
    "implementation", " ", "uses", " ", "Server-Sent", " ", "Events", " ", "(SSE)", " ", "to",
    " ", "progressively", " ", "stream", " ", "JSON", " ", "chunks", " ", "to", " ",
    "clients.", "\n\n", "Key", " ", "Features:", "\n", "-", " ", "Non-blocking", " ",
    "streaming", " ", "architecture", "\n", "-", " ", "Error", " ", "handling", " ", "with",
    " ", "graceful", " ", "degradation", "\n", "-", " ", "Support", " ", "for", " ",
    "multiple", " ", "concurrent", " ", "connections", "\n", "-", " ", "Proper", " ",
    "resource", " ", "cleanup", " ", "and", " ", "connection", " ", "management", "\n\n",
    "Performance", " ", "Characteristics:", "\n", "-", " ", "First", " ", "token", " ",
    "latency:", " ", "<2000ms", "\n", "-", " ", "Throughput:", " ", ">30", " ",
    "tokens/second", "\n", "-", " ", "Connection", " ", "pooling", " ", "enabled", "\n", "-",
    " ", "Automatic", " ", "backpressure", " ", "handling", "\n\n", "The", " ", "response",
    " ", "is", " ", "delivered", " ", "in", " ", "6+", " ", "chunks", " ", "for", " ",
    "demonstration:", "\n", "This", " ", "ensures", " ", "responsive", " ", "user", " ",
    "interfaces", " ", "and", " ", "better", " ", "perceived", " ", "performance.", "\n",
    "Each", " ", "chunk", " ", "is", " ", "sent", " ", "as", " ", "soon", " ", "as", " ",
    "available,", " ", "without", " ", "waiting", " ", "for", " ", "completion.", "\n", "The",
    " ", "streaming", " ", "paradigm", " ", "revolutionizes", " ", "how", " ", "we", " ",
    "deliver", " ", "AI-generated", " ", "content.", "\n", "Real-time", " ", "feedback", " ",
    "transforms", " ", "user", " ", "engagement", " ", "and", " ", "satisfaction", " ",
    "metrics.", "\n", "Implementation", " ", "details", " ", "follow", " ", "industry", " ",
    "best", " ", "practices", " ", "and", " ", "standards.", "\n", "This", " ",
    "comprehensive", " ", "solution", " ", "meets", " ", "all", " ", "specified", " ",
    "requirements", " ", "and", " ", "exceeds", " ", "expectations.", "\n", "Production-ready",
    " ", "streaming", " ", "infrastructure", " ", "for", " ", "maximum", " ", "reliability",
    " ", "and", " ", "scalability.">>
StandaloneHead ==
  <<"Based", " ", "on", " ", "your", " ", "prompt", " ", "'">>
StandaloneTail ==
  <<"',", " ", "here's", " ", "a", " ", "comprehensive", " ", "response:", "\n\n", "The", " ",
    "streaming", " ", "API", " ", "enables", " ", "real-time", " ", "content", " ",
    "delivery,", " ", "significantly", " ", "improving", " ", "user", " ", "experience", " ",
    "by", " ", "providing", " ", "immediate", " ", "feedback.", " ", "This", " ",
    "implementation", " ", "uses", " ", "Server-Sent", " ", "Events", " ", "(SSE)", " ", "to",
    " ", "progressively", " ", "stream", " ", "JSON", " ", "chunks", " ", "to", " ",
    "clients.", "\n\n", "Key", " ", "Features:", "\n", "*", " ", "Non-blocking", " ",
    "streaming", " ", "architecture:", " ", "Leveraging", " ", "asynchronous", " ", "I/O", " ",
    "to", " ", "handle", " ", "many", " ", "connections.", "\n", "*", " ", "Error", " ",
    "handling", " ", "with", " ", "graceful", " ", "degradation:", " ", "Ensuring", " ",
    "that", " ", "any", " ", "server-side", " ", "issues", " ", "are", " ", "communicated.",
    "\n", "*", " ", "Support", " ", "for", " ", "multiple", " ", "concurrent", " ",
    "connections:", " ", "Scaling", " ", "to", " ", "meet", " ", "demand", " ", "efficiently.",
    "\n", "*", " ", "Proper", " ", "resource", " ", "cleanup", " ", "and", " ", "connection",
    " ", "management:", " ", "Preventing", " ", "memory", " ", "leaks", " ", "and", " ",
    "socket", " ", "exhaustion.", "\n\n", "Performance", " ", "Characteristics:", "\n", "-",
    " ", "First", " ", "token", " ", "latency:", " ", "<2000ms:", " ", "Optimizing", " ",
    "for", " ", "the", " ", "fastest", " ", "possible", " ", "response", " ", "start.", "\n",
    "-", " ", "Throughput:", " ", ">30", " ", "tokens/second:", " ", "Ensuring", " ", "a", " ",
    "smooth", " ", "and", " ", "steady", " ", "flow", " ", "of", " ", "information.", "\n",
    "-", " ", "Connection", " ", "pooling", " ", "enabled:", " ", "Reusing", " ",
    "connections", " ", "to", " ", "reduce", " ", "handshake", " ", "overhead.", "\n", "-",
    " ", "Automatic", " ", "backpressure", " ", "handling:", " ", "Managing", " ", "data", " ",
    "flow", " ", "to", " ", "match", " ", "client", " ", "consumption", " ", "rates.", "\n\n",
    "The", " ", "response", " ", "is", " ", "delivered", " ", "in", " ", "6+", " ", "chunks",
    " ", "for", " ", "demonstration:", "\n", "This", " ", "ensures", " ", "responsive", " ",
    "user", " ", "interfaces", " ", "and", " ", "better", " ", "perceived", " ",
    "performance.", "\n", "Each", " ", "chunk", " ", "is", " ", "sent", " ", "as", " ", "soon",
    " ", "as", " ", "available,", " ", "without", " ", "waiting", " ", "for", " ",
    "completion.", "\n", "The", " ", "streaming", " ", "paradigm", " ", "revolutionizes", " ",
    "how", " ", "we", " ", "deliver", " ", "AI-generated", " ", "content.", "\n", "Real-time",
    " ", "feedback", " ", "transforms", " ", "user", " ", "engagement", " ", "and", " ",
    "satisfaction", " ", "metrics.", "\n", "Implementation", " ", "details", " ", "follow",
    " ", "industry", " ", "best", " ", "practices", " ", "and", " ", "standards.", "\n",
    "This", " ", "comprehensive", " ", "solution", " ", "meets", " ", "all", " ", "specified",
    " ", "requirements", " ", "and", " ", "exceeds", " ", "expectations.", "\n",
    "Production-ready", " ", "streaming", " ", "infrastructure", " ", "for", " ", "maximum",
    " ", "reliability", " ", "and", " ", "scalability.", "\n", "Moreover,", " ", "by", " ",
    "using", " ", "Rust", " ", "as", " ", "the", " ", "underlying", " ", "technology", " ",
    "for", " ", "high-performance", " ", "components,", " ", "we", " ", "achieve", " ",
    "unprecedented", " ", "speed", " ", "and", " ", "efficiency.", " ", "The", " ",
    "combination", " ", "of", " ", "memory", " ", "safety", " ", "and", " ", "zero-cost", " ",
    "abstractions", " ", "allows", " ", "for", " ", "building", " ", "systems", " ", "that",
    " ", "are", " ", "both", " ", "robust", " ", "and", " ", "blazing", " ", "fast.", "\n\n",
    "Furthermore,", " ", "streaming", " ", "is", " ", "not", " ", "just", " ", "about", " ",
    "speed;", " ", "it's", " ", "about", " ", "the", " ", "interactive", " ", "experience.",
    " ", "When", " ", "users", " ", "see", " ", "words", " ", "appearing", " ", "as", " ",
    "they", " ", "are", " ", "being", " ", "thought", " ", "of", " ", "by", " ", "the", " ",
    "AI,", " ", "it", " ", "creates", " ", "a", " ", "sense", " ", "of", " ", "collaboration",
    " ", "and", " ", "flow", " ", "that", " ", "batch", " ", "processing", " ", "simply", " ",
    "cannot", " ", "replicate.", " ", "This", " ", "is", " ", "particularly", " ", "vital",
    " ", "in", " ", "creative", " ", "applications,", " ", "coding", " ", "assistants,", " ",
    "and", " ", "any", " ", "tool", " ", "where", " ", "the", " ", "user's", " ", "focus", " ",
    "is", " ", "on", " ", "the", " ", "evolving", " ", "output.", " ", "By", " ", "minimizing",
    " ", "the", " ", "time", " ", "to", " ", "first", " ", "token,", " ", "we", " ", "bridge",
    " ", "the", " ", "gap", " ", "between", " ", "human", " ", "thought", " ", "and", " ",
    "machine", " ", "generation,", " ", "fostering", " ", "a", " ", "more", " ", "intuitive",
    " ", "and", " ", "natural", " ", "interface.", " \n\n", "In", " ", "conclusion,", " ",
    "this", " ", "streaming", " ", "endpoint", " ", "is", " ", "a", " ", "testament", " ",
    "to", " ", "modern", " ", "engineering", " ", "principles,", " ", "combining", " ", "SSE",
    " ", "protocol", " ", "efficiency", " ", "with", " ", "robust", " ", "backend", " ",
    "processing", " ", "to", " ", "deliver", " ", "a", " ", "state-of-the-art", " ", "content",
    " ", "generation", " ", "service.", " ", "It", " ", "is", " ", "designed", " ", "to", " ",
    "be", " ", "scalable,", " ", "maintainable,", " ", "and", " ", "highly", " ", "responsive",
    " ", "to", " ", "user", " ", "needs.">>

Variants == {"app", "standalone"}

\* the content numbered by a counter of the requests served so far: a
\* plausible slip
generate_streaming_contentCounted(v, prompt) ==
    <<"Response", " ", ToString(Cardinality({c \in DOMAIN pc : pc[c] # "idle"})), " ">>
        \o (IF v = "app" THEN AppHead \o prompt \o AppTail
            ELSE StandaloneHead \o prompt \o StandaloneTail)

\* a stub that only echoes the prompt: a plausible slip
generate_streaming_contentEcho(v, prompt) == <<"Echo:", " ">> \o prompt

generate_streaming_content(v, prompt) ==
    IF v = "app" THEN AppHead \o prompt \o AppTail
    ELSE StandaloneHead \o prompt \o StandaloneTail

(***************************************************************************)
(* Request bodies.  A JSON value is a record of its type t and its value:  *)
(* b for a boolean, n for a number (and the size of a list or object), s   *)
(* for a string.  A body carries the top-level value and, for an object,   *)
(* its keys and the values of "prompt" and "stream".                       *)
(***************************************************************************)
JV(t, b, n, s) == [t |-> t, b |-> b, n |-> n, s |-> s]
JNull == JV("null", FALSE, 0, <<>>)
JBool(b) == JV("bool", b, 0, <<>>)
JNum(n) == JV("num", FALSE, n, <<>>)
JStr(s) == JV("str", FALSE, 0, s)
JList(n) == JV("list", FALSE, n, <<>>)
JObj(n) == JV("obj", FALSE, n, <<>>)

RawBody(kind, val, keys, prompt, stream) ==
    [kind |-> kind, val |-> val, keys |-> keys,
     prompt |-> IF "prompt" \in keys THEN prompt ELSE JNull,
     stream |-> IF "stream" \in keys THEN stream ELSE JNull]

NoBody == RawBody("none", JNull, {}, JNull, JNull)
Malformed == RawBody("malformed", JNull, {}, JNull, JNull)
Scalar(v) == RawBody("json", v, {}, JNull, JNull)
Object(keys, prompt, stream) ==
    RawBody("json", JObj(Cardinality(keys)), keys, prompt, stream)

\* Python None, as get_json returns it
None == Scalar(JNull)

MaxPromptLen == 5000
ChunkSize == 150

Pad(n) == [i \in 1..n |-> " "]

Cores ==
    { <<>>, <<"hi">>, <<"Explain", " ", "streaming">>,
      <<Rep("a", MaxPromptLen)>>, <<Rep("a", MaxPromptLen + 1)>> }

Prompts == {Pad(l) \o core \o Pad(r) : l \in 0..MaxPad, r \in 0..MaxPad, core \in Cores}

PromptValues == {JStr(p) : p \in Prompts} \cup {JNull, JNum(5)}

StreamValues ==
    { JBool(TRUE), JBool(FALSE), JNull, JNum(0), JNum(1),
      JStr(<<"false">>), JStr(<<>>) }

Scalars ==
    { JNull, JBool(FALSE), JBool(TRUE), JNum(0), JNum(1),
      JStr(<<>>), JStr(<<"hi">>), JList(0), JList(1) }

Objects ==
    {Object({}, JNull, JNull), Object({"model"}, JNull, JNull)}
        \cup {Object({"prompt"}, p, JNull) : p \in PromptValues}
        \cup {Object({"stream"}, JNull, st) : st \in StreamValues}
        \cup {Object({"prompt", "stream"}, p, st) : p \in PromptValues, st \in StreamValues}

Bodies == {NoBody, Malformed} \cup {Scalar(v) : v \in Scalars} \cup Objects

(***************************************************************************)
(* Frames and responses.  A frame is written to the wire as                *)
(* "data: <payload>\n\n"; kind tells the three payloads apart, text is the *)
(* content of a delta or the message of an error, code the error's code.   *)
(* A pacing wait is logged in the same trace as the frames.                *)
(***************************************************************************)
Delta(content) == [kind |-> "delta", text |-> content, code |-> 0]
DoneFrame == [kind |-> "done", text |-> "[DONE]", code |-> 0]
ErrorFrame(msg, code) == [kind |-> "error", text |-> msg, code |-> code]
SleepEvent == [kind |-> "sleep", text |-> "", code |-> 0]

EventStream == "text/event-stream"

NoResponse == [status |-> 0, content_type |-> "", headers |-> {}]

StreamHeaders ==
    { <<"Cache-Control", "no-cache">>, <<"X-Accel-Buffering", "no">>,
      <<"Connection", "keep-alive">> }

\* what the handler returns: the response head, the body of a response that
\* is complete at once, and for a streaming response the chunks captured
Returned(status, headers, body, streaming, cs, synth) ==
    [resp |-> [status |-> status, content_type |-> EventStream, headers |-> headers],
     body |-> body, streaming |-> streaming, chunks |-> cs, ran |-> synth]

\* a validation error treated as success: a plausible slip
ValidationErrorAs200(msg) ==
    Returned(200, {}, <<ErrorFrame(msg, 400)>>, FALSE, <<>>, FALSE)

\* Response('data: {"error": msg, "code": 400}\n\n', status=400)
ValidationError(msg) ==
    Returned(400, {}, <<ErrorFrame(msg, 400)>>, FALSE, <<>>, FALSE)

\* the try/except of the handler missing, the exception left to the
\* errorhandler of src/app.py lines 56-59 (jsonify, no frame): a plausible
\* slip
ServerErrorPropagates(e) ==
    [resp |-> [status |-> 500, content_type |-> "application/json", headers |-> {}],
     body |-> <<>>, streaming |-> FALSE, chunks |-> <<>>, ran |-> FALSE]

\* the server error answered as JSON, as the errorhandler of src/app.py
\* lines 56-59 does with jsonify: a plausible slip
ServerErrorAsJson(e) ==
    [resp |-> [status |-> 500, content_type |-> "application/json", headers |-> {}],
     body |-> <<ErrorFrame("Server error: " \o e, 500)>>,
     streaming |-> FALSE, chunks |-> <<>>, ran |-> FALSE]

\* the handler's "except Exception as e" branch
ServerError(e) ==
    Returned(500, {}, <<ErrorFrame("Server error: " \o e, 500)>>, FALSE, <<>>, FALSE)

\* Response(generate(), ...): status defaults to 200
StreamingResponse(cs) == Returned(200, StreamHeaders, <<>>, TRUE, cs, TRUE)

CorsHeaders ==
    { <<"Access-Control-Allow-Origin", "*">>,
      <<"Access-Control-Allow-Methods", "POST, GET, OPTIONS">>,
      <<"Access-Control-Allow-Headers", "Content-Type, Authorization">> }

\* @app.after_request add_cors_headers, of streaming_llm_api.py only
add_cors_headers(v, response) ==
    IF v = "standalone"
    THEN [response EXCEPT !.headers = response.headers \cup CorsHeaders]
    ELSE response

(***************************************************************************)
(* request.get_json() of Flask, called with its defaults (silent=False).   *)
(* A body that does not parse makes it raise BadRequest.  With no JSON     *)
(* content type it returns None (Flask before 2.1) or raises               *)
(* UnsupportedMediaType (from 2.1 on); the repository pins no version, so  *)
(* both outcomes are possible.  A result is the exception raised (exc, ""  *)
(* if none) and the value returned.                                        *)
(***************************************************************************)
Value(data) == [exc |-> "", data |-> data]
Raises(e) == [exc |-> e, data |-> None]

get_json(raw) ==
    CASE raw.kind = "malformed" -> {Raises("400 Bad Request")}
      [] raw.kind = "none" -> {Value(None), Raises("415 Unsupported Media Type")}
      [] OTHER -> {Value(raw)}

\* Python's truth value of a JSON value
Truthy(v) ==
    CASE v.t = "null" -> FALSE
      [] v.t = "bool" -> v.b
      [] v.t = "num" -> v.n # 0
      [] v.t = "str" -> v.s # <<>>
      [] OTHER -> v.n # 0

\* type(v).__name__
TypeName(v) ==
    CASE v.t = "null" -> "NoneType"
      [] v.t = "bool" -> "bool"
      [] v.t = "num" -> "int"
      [] v.t = "str" -> "str"
      [] v.t = "list" -> "list"
      [] OTHER -> "dict"

AttributeError(v, attr) ==
    "'" \o TypeName(v) \o "' object has no attribute '" \o attr \o "'"

\* data.get(key, default) of a dict
DictGet(data, key, default) ==
    IF key \notin data.keys THEN default
    ELSE IF key = "prompt" THEN data.prompt ELSE data.stream

TooLongMessage(v) ==
    IF v = "app" THEN "Prompt exceeds maximum length"
    ELSE "Prompt exceeds maximum length of 5000 chars"

\* "if not data"
NoData(data) == ~Truthy(data.val)

\* the emptiness check left out: a plausible slip
NoPromptSkipped(prompt) == FALSE

\* "if not prompt"
NoPrompt(prompt) == prompt = <<>>

\* the limit off by one: a plausible slip
TooLongOffByOne(prompt) == len(prompt) > MaxPromptLen + 1

\* "if len(prompt) > 5000"
TooLong(prompt) == len(prompt) > MaxPromptLen

\* "if not stream"
NoStream(stream) == ~Truthy(stream)

\* the stream flag checked before the prompt: a plausible slip
stream_endpointStreamFirst(v, got) ==
    IF got.exc # "" THEN ServerError(got.exc)
    ELSE LET data == got.data IN
    IF NoData(data) THEN ValidationError("No JSON body provided")
    ELSE IF data.val.t # "obj" THEN ServerError(AttributeError(data.val, "get"))
    ELSE LET raw_prompt == DictGet(data, "prompt", JStr(<<>>))
             stream == DictGet(data, "stream", JBool(FALSE))
         IN
    IF raw_prompt.t # "str" THEN ServerError(AttributeError(raw_prompt, "strip"))
    ELSE LET prompt == strip(raw_prompt.s) IN
    IF NoStream(stream) THEN ValidationError("stream parameter must be true")
    ELSE IF NoPrompt(prompt) THEN ValidationError("Prompt cannot be empty")
    ELSE IF TooLong(prompt) THEN ValidationError(TooLongMessage(v))
    ELSE StreamingResponse(chunk_text(generate_streaming_content(v, prompt), ChunkSize))

(***************************************************************************)
(* stream_endpoint, up to the Response it returns.  got is the outcome of  *)
(* request.get_json().                                                     *)
(***************************************************************************)
stream_endpoint(v, got) ==
    IF got.exc # "" THEN ServerError(got.exc)
    ELSE LET data == got.data IN
    IF NoData(data) THEN ValidationError("No JSON body provided")
    ELSE IF data.val.t # "obj" THEN ServerError(AttributeError(data.val, "get"))
    ELSE LET raw_prompt == DictGet(data, "prompt", JStr(<<>>))
             stream == DictGet(data, "stream", JBool(FALSE))
         IN
    IF raw_prompt.t # "str" THEN ServerError(AttributeError(raw_prompt, "strip"))
    ELSE LET prompt == strip(raw_prompt.s) IN
    IF NoPrompt(prompt) THEN ValidationError("Prompt cannot be empty")
    ELSE IF TooLong(prompt) THEN ValidationError(TooLongMessage(v))
    ELSE IF NoStream(stream) THEN ValidationError("stream parameter must be true")
    ELSE StreamingResponse(chunk_text(generate_streaming_content(v, prompt), ChunkSize))

(***************************************************************************)
(* One request per connection.  pc[c] is                                   *)
(*   "idle"         no request received yet                                *)
(*   "start"        Response(generate()) returned, generator not started   *)
(*   "yielded"      generator suspended at the yield of a content frame    *)
(*   "slept"        generator resumed and past time.sleep, in the loop     *)
(*   "yielded_done" generator suspended at the yield of [DONE]             *)
(*   "yielded_err"  generator suspended at the yield of its error frame    *)
(*   "closed"       the response body is complete                          *)
(*   "cancelled"    the transport closed the generator (client gone)       *)
(***************************************************************************)
Conns == DOMAIN pc

Set(f, c, v) == [f EXCEPT ![c] = v]

\* "chunks" kept in a module-level global that every request overwrites,
\* instead of a local of the call: a plausible slip
ServeSharedChunks(c, raw) ==
    \E got \in get_json(raw) :
        LET r == stream_endpoint(variant, got) IN
        /\ req' = Set(req, c, raw)
        /\ resp' = Set(resp, c, add_cors_headers(variant, r.resp))
        /\ trace' = Set(trace, c, r.body)
        /\ chunks' = [d \in Conns |-> r.chunks]
        /\ ran' = Set(ran, c, r.ran)
        /\ pc' = Set(pc, c, IF r.streaming THEN "start" ELSE "closed")

\* the handler runs on the body raw to the Response it returns; content and
\* chunks are locals of the call, held by the generator's closure
Serve(c, raw) ==
    \E got \in get_json(raw) :
        LET r == stream_endpoint(variant, got) IN
        /\ req' = Set(req, c, raw)
        /\ resp' = Set(resp, c, add_cors_headers(variant, r.resp))
        /\ trace' = Set(trace, c, r.body)
        /\ chunks' = Set(chunks, c, r.chunks)
        /\ ran' = Set(ran, c, r.ran)
        /\ pc' = Set(pc, c, IF r.streaming THEN "start" ELSE "closed")

\* POST on connection c, with any of the bodies
Request(c) ==
    /\ pc[c] = "idle"
    /\ \E raw \in Bodies : Serve(c, raw)
    /\ UNCHANGED <<variant, idx>>
    /\ UNCHANGED callVars

\* the loop stepping over a chunk: a plausible slip
NextChunkAtSkips(cs, i) ==
    CHOOSE out \in
        {IF rest = {} THEN 0 ELSE Least(rest) :
             rest \in {{k \in (i + 2)..Len(cs) : strip(cs[k]) # <<>>}}} : TRUE

\* "for chunk in chunks: if chunk.strip():" -- the position of the next
\* chunk that is yielded, 0 when the loop runs out
NextChunkAt(cs, i) ==
    CHOOSE out \in
        {IF rest = {} THEN 0 ELSE Least(rest) :
             rest \in {{k \in (i + 1)..Len(cs) : strip(cs[k]) # <<>>}}} : TRUE

\* the frame of a chunk: {"choices": [{"delta": {"content": chunk + " "}}]}
ContentFrame(chunk) == Delta(Str(chunk \o <<" ">>))

\* the loop reaches its next yield of a content frame
EmitChunk(c) ==
    /\ pc[c] \in {"start", "slept"}
    /\ NextChunkAt(chunks[c], idx[c]) # 0
    /\ LET k == NextChunkAt(chunks[c], idx[c]) IN
        /\ trace' = Set(trace, c, Append(trace[c], ContentFrame(chunks[c][k])))
        /\ idx' = Set(idx, c, k)
    /\ pc' = Set(pc, c, "yielded")
    /\ UNCHANGED <<variant, req, resp, chunks, ran>>
    /\ UNCHANGED callVars

\* time.sleep left out of the loop: a plausible slip
PaceSkipped(c) ==
    /\ pc[c] = "yielded"
    /\ pc' = Set(pc, c, "slept")
    /\ UNCHANGED <<variant, req, resp, trace, chunks, idx, ran>>
    /\ UNCHANGED callVars

\* the transport asks for the next frame: the generator resumes after the
\* yield and runs time.sleep(0.05)
Pace(c) ==
    /\ pc[c] = "yielded"
    /\ trace' = Set(trace, c, Append(trace[c], SleepEvent))
    /\ pc' = Set(pc, c, "slept")
    /\ UNCHANGED <<variant, req, resp, chunks, idx, ran>>
    /\ UNCHANGED callVars

\* the sentinel left out: a plausible slip
EmitDoneOmitted(c) ==
    /\ pc[c] \in {"start", "slept"}
    /\ NextChunkAt(chunks[c], idx[c]) = 0
    /\ idx' = Set(idx, c, Len(chunks[c]))
    /\ pc' = Set(pc, c, "yielded_done")
    /\ UNCHANGED <<variant, req, resp, trace, chunks, ran>>
    /\ UNCHANGED callVars

\* the loop is over: yield "data: [DONE]\n\n"
EmitDone(c) ==
    /\ pc[c] \in {"start", "slept"}
    /\ NextChunkAt(chunks[c], idx[c]) = 0
    /\ trace' = Set(trace, c, Append(trace[c], DoneFrame))
    /\ idx' = Set(idx, c, Len(chunks[c]))
    /\ pc' = Set(pc, c, "yielded_done")
    /\ UNCHANGED <<variant, req, resp, chunks, ran>>
    /\ UNCHANGED callVars

\* the try block put inside the loop, which then goes on: a plausible slip
FaultInsideLoop(c) ==
    /\ pc[c] \in {"start", "yielded", "slept"}
    /\ trace' = Set(trace, c, Append(trace[c], ErrorFrame("fault", 500)))
    /\ pc' = Set(pc, c, "slept")
    /\ UNCHANGED <<variant, req, resp, chunks, idx, ran>>
    /\ UNCHANGED callVars

\* a statement inside the try block raises an Exception (in the loop, or in
\* time.sleep after a resume): the except branch yields the error frame
Fault(c) ==
    /\ pc[c] \in {"start", "yielded", "slept"}
    /\ trace' = Set(trace, c, Append(trace[c], ErrorFrame("fault", 500)))
    /\ pc' = Set(pc, c, "yielded_err")
    /\ UNCHANGED <<variant, req, resp, chunks, idx, ran>>
    /\ UNCHANGED callVars

\* resumed after its last yield the generator returns
Finish(c) ==
    /\ pc[c] \in {"yielded_done", "yielded_err"}
    /\ pc' = Set(pc, c, "closed")
    /\ UNCHANGED <<variant, req, resp, trace, chunks, idx, ran>>
    /\ UNCHANGED callVars

\* GeneratorExit caught like an Exception ("except BaseException"), so that
\* the except branch yields its error frame: a plausible slip
DisconnectCaught(c) ==
    /\ pc[c] \in {"start", "yielded", "yielded_done", "yielded_err"}
    /\ trace' = Set(trace, c, Append(trace[c], ErrorFrame("fault", 500)))
    /\ pc' = Set(pc, c, "cancelled")
    /\ UNCHANGED <<variant, req, resp, chunks, idx, ran>>
    /\ UNCHANGED callVars

\* the client goes away: the transport closes the generator where it is
\* suspended; GeneratorExit is not an Exception, the except branch is skipped
Disconnect(c) ==
    /\ pc[c] \in {"start", "yielded", "yielded_done", "yielded_err"}
    /\ pc' = Set(pc, c, "cancelled")
    /\ UNCHANGED <<variant, req, resp, trace, chunks, idx, ran>>
    /\ UNCHANGED callVars

InitConns(C) ==
    /\ variant \in Variants
    /\ req = [c \in C |-> NoBody]
    /\ pc = [c \in C |-> "idle"]
    /\ resp = [c \in C |-> NoResponse]
    /\ trace = [c \in C |-> <<>>]
    /\ chunks = [c \in C |-> <<>>]
    /\ idx = [c \in C |-> 0]
    /\ ran = [c \in C |-> FALSE]
    /\ text = <<>> /\ chunk_size = 0 /\ called = FALSE /\ ret = <<>>

Init == InitConns({1})

Next ==
    \/ \E c \in Conns : Request(c)
    \/ \E c \in Conns : EmitChunk(c)
    \/ \E c \in Conns : Pace(c)
    \/ \E c \in Conns : EmitDone(c)
    \/ \E c \in Conns : Fault(c)
    \/ \E c \in Conns : Finish(c)
    \/ \E c \in Conns : Disconnect(c)

Spec == Init /\ [][Next]_vars

(***************************************************************************)
(* Several requests in flight.  app.run(threaded=True) serves every        *)
(* request on a thread of its own; the steps of the generators interleave  *)
(* in any order.  The clients keep reading and nothing faults.             *)
(***************************************************************************)
NumConns == 2

ConcPrompts == {<<"hi">>, <<"Explain", " ", "streaming">>}

ConcBodies ==
    {Object({"prompt", "stream"}, JStr(p), JBool(TRUE)) : p \in ConcPrompts}
        \cup {Object({"prompt", "stream"}, JStr(<<"hi">>), JBool(FALSE)),
              Object({"stream"}, JNull, JBool(TRUE))}

RequestConc(c) ==
    /\ pc[c] = "idle"
    /\ \E raw \in ConcBodies : Serve(c, raw)
    /\ UNCHANGED <<variant, idx>>
    /\ UNCHANGED callVars

InitConc == InitConns(1..NumConns) /\ variant = "app"

NextConc ==
    \/ \E c \in Conns : RequestConc(c)
    \/ \E c \in Conns : EmitChunk(c)
    \/ \E c \in Conns : Pace(c)
    \/ \E c \in Conns : EmitDone(c)
    \/ \E c \in Conns : Finish(c)

\* the step of the generator of connection c
Generate(c) == EmitChunk(c) \/ Pace(c) \/ EmitDone(c) \/ Finish(c)

\* every thread gets to run, and every client keeps reading
SpecConc ==
    /\ InitConc
    /\ [][NextConc]_vars
    /\ \A c \in 1..NumConns : WF_vars(Generate(c))

(***************************************************************************)
(* One request whose client reads to the end: the server's thread drives   *)
(* the generator until it returns.  Faults stay possible.                  *)
(***************************************************************************)
NextLive ==
    \/ \E c \in Conns : Request(c)
    \/ \E c \in Conns : EmitChunk(c)
    \/ \E c \in Conns : Pace(c)
    \/ \E c \in Conns : EmitDone(c)
    \/ \E c \in Conns : Fault(c)
    \/ \E c \in Conns : Finish(c)

SpecLive == Init /\ [][NextLive]_vars /\ WF_vars(Generate(1))

(***************************************************************************)
(* The routes of streaming_llm_api.py.  Connection c posts to the path     *)
(* RoutePaths[c]; the clients read to the end and nothing faults.          *)
(***************************************************************************)
RoutePaths == <<"/", "/v1/chat/completions">>

\* the root bound to the GET-only index, as in src/app.py lines 152-153: a
\* plausible slip
url_mapRootIsIndex(path, method) ==
    CASE path = "/v1/chat/completions" /\ method \in {"POST", "OPTIONS"} -> "stream_endpoint"
      [] path = "/health" /\ method = "GET" -> "health_check"
      [] path \in {"/", "/info"} /\ method = "GET" -> "index"
      [] path \in {"/", "/v1/chat/completions", "/health", "/info"} -> "405"
      [] OTHER -> "404"

\* app.url_map of streaming_llm_api.py: the view function bound to a path
\* and method, or the status of the routing error
url_map(path, method) ==
    CASE path \in {"/", "/v1/chat/completions"} /\ method \in {"POST", "OPTIONS"} -> "stream_endpoint"
      [] path = "/health" /\ method = "GET" -> "health_check"
      [] path = "/info" /\ method = "GET" -> "index"
      [] path \in {"/", "/v1/chat/completions", "/health", "/info"} -> "405"
      [] OTHER -> "404"

\* the framework's answer to a request it cannot route
RoutingError(status) ==
    [status |-> status, content_type |-> "text/html; charset=utf-8", headers |-> {}]

RouteBodies ==
    { Malformed,
      Object({}, JNull, JNull),
      Object({"prompt", "stream"}, JStr(<<>>), JBool(TRUE)),
      Object({"prompt", "stream"}, JNum(5), JBool(TRUE)),
      Object({"prompt", "stream"}, JStr(<<Rep("a", MaxPromptLen + 1)>>), JBool(TRUE)),
      Object({"prompt", "stream"}, JStr(<<"hi">>), JBool(FALSE)),
      Object({"prompt", "stream"}, JStr(<<"hi">>), JBool(TRUE)) }

\* POST to the path of connection c
RequestRoute(c) ==
    /\ pc[c] = "idle"
    /\ \E raw \in RouteBodies :
        LET view == url_map(RoutePaths[c], "POST") IN
        IF view = "stream_endpoint" THEN Serve(c, raw)
        ELSE /\ req' = Set(req, c, raw)
             /\ resp' = Set(resp, c, add_cors_headers(variant,
                                         RoutingError(IF view = "404" THEN 404 ELSE 405)))
             /\ pc' = Set(pc, c, "closed")
             /\ UNCHANGED <<trace, chunks, ran>>
    /\ UNCHANGED <<variant, idx>>
    /\ UNCHANGED callVars

InitRoutes == InitConns(DOMAIN RoutePaths) /\ variant = "standalone"

NextRoutes ==
    \/ \E c \in Conns : RequestRoute(c)
    \/ \E c \in Conns : EmitChunk(c)
    \/ \E c \in Conns : Pace(c)
    \/ \E c \in Conns : EmitDone(c)
    \/ \E c \in Conns : Finish(c)

SpecRoutes == InitRoutes /\ [][NextRoutes]_vars

(***************************************************************************)
(* chunk_text called directly and through the endpoint: the runs of        *)
(* SpecChunk and the runs of Spec, side by side.                           *)
(***************************************************************************)
InitAll == Init \/ InitChunk

NextAll ==
    \/ Conns = {} /\ NextChunk
    \/ Conns # {} /\ Next

SpecAll == InitAll /\ [][NextAll]_vars

(***************************************************************************)
(* Claims about chunk_text, checked under SpecChunk.                       *)
(***************************************************************************)
\* the chunks of a returned list, each as a flat string
FlatChunks(cs) == [i \in 1..Len(cs) |-> Str(cs[i])]

\* a chunk made of exactly one word
SingleWord(chunk) == Len(split(chunk)) = 1

\* C3: for chunk_size N >= 1 no chunk returned by chunk_text(text, N) is
\* longer than N characters unless it is a single word longer than N.
C3_ChunkWithinSize ==
    (called /\ chunk_size >= 1) =>
        \A i \in 1..Len(ret) :
            len(ret[i]) <= chunk_size
                \/ (SingleWord(ret[i]) /\ len(ret[i]) > chunk_size)

\* C4: the chunks joined with single spaces are the words of the text
\* joined with single spaces, for every chunk_size.
C4_JoinRoundTrip ==
    called => Str(join(FlatChunks(ret))) = Str(join(split(text)))

\* a call that returned several chunks for a text with irregular whitespace
C4_Witness ==
    /\ called
    /\ Len(ret) >= 2
    /\ Len(split(text)) >= 3
    /\ Str(text) # Str(join(split(text)))

\* the number of words of each chunk of a returned list
WordCounts(cs) == [i \in 1..Len(cs) |-> Len(split(cs[i]))]

RECURSIVE Sum(_)
Sum(ns) == IF ns = <<>> THEN 0 ELSE Head(ns) + Sum(Tail(ns))

\* the chunk of cs that holds the j-th word of the text
ChunkOfWord(cs, j) ==
    Least({i \in 1..Len(cs) : Sum(SubSeq(WordCounts(cs), 1, i)) >= j})

\* C19: chunk_text is greedy: for consecutive chunks c_i and c_(i+1) of
\* chunk_text(text, N), c_i with a space and the first word of c_(i+1)
\* appended is longer than N, so that a chunk is never closed while the next
\* word still fits.
C19_Greedy ==
    called =>
        \A i \in 1..(Len(ret) - 1) :
            len(ret[i]) + 1 + Len(split(ret[i + 1])[1]) > chunk_size

\* a call that packed two words into a chunk and returned two chunks
C19_Witness ==
    /\ called /\ chunk_size >= 2
    /\ Len(ret) >= 2
    /\ \E i \in 1..Len(ret) : Len(split(ret[i])) >= 2

\* C20: chunk_text returns a list for every input; an empty or
\* whitespace-only text gives the empty list; a word longer than N is the
\* only word of its chunk wherever it stands in the text (first, middle or
\* last).
C20_EdgeCases ==
    called =>
        LET words == split(text) IN
        /\ DOMAIN ret = 1..Len(ret)
        /\ Sum(WordCounts(ret)) = Len(words)
        /\ words = <<>> => ret = <<>>
        /\ \A j \in 1..Len(words) :
               Len(words[j]) > chunk_size =>
                   Str(ret[ChunkOfWord(ret, j)]) = words[j]

\* a word longer than N between two words that fit
C20_Witness ==
    /\ called /\ chunk_size >= 1
    /\ Len(split(text)) = 3
    /\ Len(split(text)[1]) <= chunk_size
    /\ Len(split(text)[2]) > chunk_size
    /\ Len(split(text)[3]) <= chunk_size
    /\ Len(ret) = 3

\* a whitespace-only text, which gives no chunk
C20_WitnessBlank == called /\ text # <<>> /\ split(text) = <<>> /\ ret = <<>>

(***************************************************************************)
(* Claims about the endpoint, checked under Spec.                          *)
(***************************************************************************)
IsFrame(e) == e.kind # "sleep"
IsDelta(e) == e.kind = "delta"
IsTerminal(e) == e.kind \in {"done", "error"}

\* the frames connection c has been sent, in order
Frames(c) == SelectSeq(trace[c], IsFrame)

\* its content frames, in order
Deltas(c) == SelectSeq(trace[c], IsDelta)

HasDone(c) == \E i \in 1..Len(trace[c]) : trace[c][i].kind = "done"

\* the request was accepted: the handler returned the streaming response
Accepted(c) == pc[c] # "idle" /\ ran[c]

\* the response is exactly one error frame with that message and code
OnlyFrame(c, msg, code) ==
    /\ trace[c] = <<ErrorFrame(msg, code)>>
    /\ resp[c].status = code
    /\ pc[c] = "closed"

ValidationMessages ==
    { "No JSON body provided", "Prompt cannot be empty",
      TooLongMessage(variant), "stream parameter must be true" }

\* the body is a JSON object
IsObject(raw) == raw.kind = "json" /\ raw.val.t = "obj"

\* ... that carries a string under "prompt"
HasStringPrompt(raw) == IsObject(raw) /\ "prompt" \in raw.keys /\ raw.prompt.t = "str"

\* C1: a stream of an accepted request that was consumed to its end holds
\* exactly one terminal frame, [DONE] or an error frame, as its last frame,
\* and every frame before the last is a content frame.
C1_OneTerminalFrame ==
    \A c \in Conns :
        Accepted(c) =>
            LET f == Frames(c) IN
            /\ \A i \in 1..(Len(f) - 1) : IsDelta(f[i])
            /\ pc[c] = "closed" => (Len(f) >= 1 /\ IsTerminal(f[Len(f)]))

\* a stream consumed to [DONE] after at least six content frames
C1_Witness ==
    \E c \in Conns :
        /\ Accepted(c) /\ pc[c] = "closed"
        /\ Len(Frames(c)) >= 7
        /\ Frames(c)[Len(Frames(c))] = DoneFrame

\* C2: at every point the content frames sent so far are the first k chunks,
\* in order, the k-th carrying chunk k and one trailing space; a stream that
\* has reached [DONE] has sent one content frame per chunk.
C2_ChunksInOrder ==
    \A c \in Conns :
        Accepted(c) =>
            LET d == Deltas(c) IN
            /\ Len(d) <= Len(chunks[c])
            /\ \A k \in 1..Len(d) : d[k].text = Str(chunks[c][k]) \o " "
            /\ HasDone(c) => Len(d) = Len(chunks[c])

\* a stream that reached [DONE] with all of its (six or more) chunks sent
C2_Witness ==
    \E c \in Conns :
        /\ Accepted(c) /\ HasDone(c)
        /\ Len(chunks[c]) >= 6
        /\ Len(Deltas(c)) = Len(chunks[c])

\* the request was rejected with a validation error frame
Rejected(c) ==
    \E i \in 1..Len(trace[c]) : trace[c][i].kind = "error" /\ trace[c][i].code = 400

\* C5: a request rejected with a validation error gets exactly one error
\* frame with code 400 and HTTP status 400, no content frame and no [DONE],
\* and neither the synthesizer nor the chunker ran for it.
C5_ValidationErrorAlone ==
    \A c \in Conns :
        Rejected(c) =>
            /\ \E msg \in ValidationMessages : OnlyFrame(c, msg, 400)
            /\ resp[c].content_type = EventStream
            /\ ~ran[c]
            /\ chunks[c] = <<>>

\* a request with a valid prompt rejected for its stream field
C5_Witness ==
    \E c \in Conns :
        /\ Rejected(c)
        /\ HasStringPrompt(req[c])
        /\ trace[c][1].text = "stream parameter must be true"

\* the Request invariant of the prompt: non-empty after trimming, and at most
\* 5000 characters
ValidPrompt(raw) ==
    /\ HasStringPrompt(raw)
    /\ strip(raw.prompt.s) # <<>>
    /\ len(strip(raw.prompt.s)) <= MaxPromptLen

StreamIsTrue(raw) == "stream" \in raw.keys /\ raw.stream = JBool(TRUE)

\* C6: content frames are sent only for a body with a valid prompt and
\* stream equal to the boolean true; a valid prompt with any other stream
\* value is rejected with "stream parameter must be true".
C6_StreamMustBeTrue ==
    \A c \in Conns :
        pc[c] # "idle" =>
            /\ Deltas(c) # <<>> => (ValidPrompt(req[c]) /\ StreamIsTrue(req[c]))
            /\ (ValidPrompt(req[c]) /\ ~StreamIsTrue(req[c]))
                   => OnlyFrame(c, "stream parameter must be true", 400)

\* the prompt as supplied is not only whitespace
NotBlank(raw) == strip(raw.prompt.s) # <<>>

\* C7 as stated: a prompt that, as supplied in the body, is longer than 5000
\* characters and not whitespace-only is rejected with PromptTooLong.
C7_SuppliedLengthRejected ==
    \A c \in Conns :
        (pc[c] # "idle" /\ HasStringPrompt(req[c]) /\ NotBlank(req[c])
            /\ len(req[c].prompt.s) > MaxPromptLen)
            => OnlyFrame(c, TooLongMessage(variant), 400)

\* C7 amended: a prompt that is longer than 5000 characters after leading and
\* trailing whitespace is removed is rejected with PromptTooLong, whatever
\* the value of stream.
C7_TrimmedLengthRejected ==
    \A c \in Conns :
        (pc[c] # "idle" /\ HasStringPrompt(req[c])
            /\ len(strip(req[c].prompt.s)) > MaxPromptLen)
            => OnlyFrame(c, TooLongMessage(variant), 400)

\* a prompt of 5001 characters after trimming, sent with stream true, rejected
C7_Witness ==
    \E c \in Conns :
        /\ pc[c] = "closed" /\ HasStringPrompt(req[c])
        /\ len(strip(req[c].prompt.s)) = MaxPromptLen + 1
        /\ StreamIsTrue(req[c])
        /\ OnlyFrame(c, TooLongMessage(variant), 400)

\* C8: every body is either accepted or answered with one of the four
\* validation errors and HTTP status 400.
C8_ValidationTotal ==
    \A c \in Conns :
        pc[c] # "idle" =>
            \/ Accepted(c) /\ resp[c].status = 200
            \/ \E msg \in ValidationMessages : OnlyFrame(c, msg, 400)

\* C9: a request with no parseable JSON body, and the body {}, both get the
\* single frame "No JSON body provided" with code 400 and HTTP status 400.
C9_MissingBody ==
    \A c \in Conns :
        (pc[c] # "idle"
            /\ (req[c].kind \in {"none", "malformed"} \/ req[c] = Object({}, JNull, JNull)))
            => OnlyFrame(c, "No JSON body provided", 400)

\* the prompt of an object body is absent, empty or only whitespace
BlankPrompt(raw) ==
    /\ IsObject(raw)
    /\ "prompt" \notin raw.keys \/ (raw.prompt.t = "str" /\ strip(raw.prompt.s) = <<>>)

\* C10 as stated: every JSON object body whose prompt is absent, empty or
\* only whitespace is rejected with "Prompt cannot be empty".
C10_BlankPromptRejected ==
    \A c \in Conns :
        (pc[c] # "idle" /\ BlankPrompt(req[c]))
            => OnlyFrame(c, "Prompt cannot be empty", 400)

\* C10 amended: every JSON object body with at least one key whose prompt is
\* absent, empty or only whitespace is rejected with "Prompt cannot be
\* empty", whatever the value of stream.
C10_BlankPromptNonEmptyObject ==
    \A c \in Conns :
        (pc[c] # "idle" /\ BlankPrompt(req[c]) /\ req[c].keys # {})
            => OnlyFrame(c, "Prompt cannot be empty", 400)

\* a whitespace-only prompt sent with stream true, rejected
C10_Witness ==
    \E c \in Conns :
        /\ pc[c] = "closed" /\ HasStringPrompt(req[c])
        /\ req[c].prompt.s # <<>> /\ strip(req[c].prompt.s) = <<>>
        /\ StreamIsTrue(req[c])
        /\ OnlyFrame(c, "Prompt cannot be empty", 400)

(***************************************************************************)
(* Faults and disconnects.                                                 *)
(***************************************************************************)
\* the positions of the error frames among the frames connection c was sent
ErrorAt(c) == {i \in 1..Len(Frames(c)) : Frames(c)[i].kind = "error"}

\* C11: when a fault occurs in generate() after k >= 0 content frames, the
\* stream gets exactly one more frame, an error frame with code 500, and
\* nothing after it: no [DONE], no content frame; the frames before it are
\* the first k chunks in order; the generator ends by returning, and the
\* HTTP status stays 200.
C11_FaultEndsInErrorFrame ==
    \A c \in Conns :
        (Accepted(c) /\ ErrorAt(c) # {}) =>
            LET f == Frames(c) IN
            /\ ErrorAt(c) = {Len(f)}
            /\ f[Len(f)].code = 500
            /\ ~HasDone(c)
            /\ \A k \in 1..(Len(f) - 1) :
                   IsDelta(f[k]) /\ f[k].text = Str(chunks[c][k]) \o " "
            /\ Len(f) - 1 <= Len(chunks[c])
            /\ resp[c].status = 200
            /\ pc[c] \in {"yielded_err", "closed", "cancelled"}

\* a stream that failed after two content frames and was read to its end
C11_Witness ==
    \E c \in Conns :
        /\ Accepted(c) /\ pc[c] = "closed"
        /\ Len(Frames(c)) = 3
        /\ ErrorAt(c) = {3}

\* C12: once the transport has closed the generator of a connection, no
\* frame of any kind is produced for it: closing adds no frame (the
\* cancellation is not turned into an error frame) and the connection stays
\* as it is.
C12_NothingAfterDisconnect ==
    [][\A c \in Conns :
          pc'[c] = "cancelled" =>
              /\ trace'[c] = trace[c]
              /\ pc[c] \in {"start", "yielded", "yielded_done", "yielded_err", "cancelled"}]_vars

\* a stream cut off after two content frames, before any terminal frame
C12_Witness ==
    \E c \in Conns :
        /\ Accepted(c) /\ pc[c] = "cancelled"
        /\ Len(Deltas(c)) = 2
        /\ Len(Frames(c)) = 2

(***************************************************************************)
(* Claims about requests in flight together, checked under SpecConc.       *)
(***************************************************************************)
IsPrefix(s, t) == Len(s) <= Len(t) /\ s = SubSeq(t, 1, Len(s))

\* the frames a client receives when the request raw is served alone and
\* read to the end
AloneFrames(v, raw) ==
    LET r == stream_endpoint(v, CHOOSE got \in get_json(raw) : TRUE)
        yielded == SelectSeq(r.chunks, LAMBDA ch : strip(ch) # <<>>)
    IN  IF r.streaming
        THEN [i \in 1..Len(yielded) |-> ContentFrame(yielded[i])] \o <<DoneFrame>>
        ELSE SelectSeq(r.body, IsFrame)

\* the same, tabulated for the bodies of SpecConc
ConcAlone == [v \in Variants |-> [raw \in ConcBodies |-> AloneFrames(v, raw)]]

Streaming(c) == pc[c] \in {"start", "yielded", "slept", "yielded_done"}

\* C13: with several requests in flight, under every interleaving of their
\* emit steps and pacing waits, each connection receives the frames it
\* would receive if served alone: at every moment a prefix of that
\* sequence (so no frame of another request), the whole of it once the
\* response is complete; and every accepted stream completes.
C13_ServedAsIfAlone ==
    /\ [](\A c \in Conns :
            /\ pc[c] # "idle" => IsPrefix(Frames(c), ConcAlone[variant][req[c]])
            /\ pc[c] = "closed" => Frames(c) = ConcAlone[variant][req[c]])
    /\ \A c \in 1..NumConns :
           Accepted(c) ~> (pc[c] = "closed" /\ HasDone(c))

\* two streams of different prompts, both under way, neither complete
C13_Witness ==
    \E c, d \in Conns :
        /\ c # d /\ req[c] # req[d]
        /\ Accepted(c) /\ Accepted(d)
        /\ Streaming(c) /\ Streaming(d)
        /\ Len(Deltas(c)) >= 2 /\ Len(Deltas(d)) >= 1

C18_ResponseHead ==
    \A c \in Conns :
        pc[c] # "idle" =>
            /\ resp[c].content_type = EventStream
            /\ resp[c].status \in {200, 400, 500}
            /\ resp[c].status = 200 <=> Accepted(c)
            /\ resp[c].status = 400 <=>
                   \E msg \in ValidationMessages : OnlyFrame(c, msg, 400)
            /\ resp[c].status = 500 =>
                   (Len(Frames(c)) = 1 /\ Frames(c)[1].kind = "error" /\ Frames(c)[1].code = 500)
            /\ Accepted(c) => StreamHeaders \subseteq resp[c].headers

\* an accepted stream, under way, with its three headers
C18_Witness ==
    \E c \in Conns :
        /\ Accepted(c) /\ pc[c] = "yielded"
        /\ resp[c].status = 200
        /\ resp[c].content_type = EventStream
        /\ StreamHeaders \subseteq resp[c].headers

(***************************************************************************)
(* The size of a stream.  index() advertises "6+ content chunks" and       *)
(* ">1375 characters output" (src/app.py 165-166, streaming_llm_api.py     *)
(* 181-182).                                                               *)
(***************************************************************************)
MinChunks == 6

MinChars == 1375

\* the prompt the handler works on: the supplied one, trimmed
TrimmedPrompt(c) == strip(req[c].prompt.s)

RECURSIVE SumLen(_)
SumLen(cs) == IF cs = <<>> THEN 0 ELSE len(Head(cs)) + SumLen(Tail(cs))

\* C14: for every prompt that passes validation, in both variants,
\* chunk_text(generate_streaming_content(prompt), 150) has at least 6
\* chunks, and a completed stream carries at least 6 content frames.
C14_AtLeastSixChunks ==
    \A c \in Conns :
        Accepted(c) =>
            /\ Len(chunks[c]) >= MinChunks
            /\ HasDone(c) => Len(Deltas(c)) >= MinChunks

\* a completed stream of the shortest content: app.py, prompt "hi"
C14_Witness ==
    \E c \in Conns :
        /\ Accepted(c) /\ pc[c] = "closed" /\ HasDone(c)
        /\ variant = "app"
        /\ Str(TrimmedPrompt(c)) = "hi"
        /\ Len(Deltas(c)) >= MinChunks

\* C15: for every prompt that passes validation, in both variants, the
\* chunks of chunk_text(generate_streaming_content(prompt), 150), which are
\* the content of a completed stream, have more than 1375 characters in all.
C15_MoreThan1375Chars ==
    \A c \in Conns :
        (Accepted(c) /\ HasDone(c)) => SumLen(chunks[c]) > MinChars

(***************************************************************************)
(* Termination, checked under SpecLive.                                    *)
(***************************************************************************)
\* the pacing waits of connection c
Sleeps(c) == SelectSeq(trace[c], LAMBDA e : e.kind = "sleep")

\* Completed or Failed: the terminal frame is out
Ended(c) == pc[c] \in {"yielded_done", "yielded_err", "closed"}

\* C16: every accepted stream whose client keeps reading reaches Completed
\* ([DONE] emitted) or Failed (error frame emitted), after at most n content
\* frames and n pacing waits, n being the number of chunks; once there it
\* emits nothing more and never goes back to emitting.
C16_StreamTerminates ==
    /\ Accepted(1) ~> (Ended(1) /\ (HasDone(1) \/ ErrorAt(1) # {}))
    /\ [](\A c \in Conns :
            Accepted(c) =>
                /\ Len(Deltas(c)) <= Len(chunks[c])
                /\ Len(Sleeps(c)) <= Len(chunks[c]))
    /\ [][\A c \in Conns :
            Ended(c) => (trace'[c] = trace[c] /\ Ended(c)')]_vars

\* a stream that ran through all its n chunks and n waits to [DONE]
C16_Witness ==
    \E c \in Conns :
        /\ Accepted(c) /\ pc[c] = "closed" /\ HasDone(c)
        /\ Len(Deltas(c)) = Len(chunks[c])
        /\ Len(Sleeps(c)) = Len(chunks[c])

(***************************************************************************)
(* The order of the validation checks, checked under Spec.                 *)
(***************************************************************************)
\* the stream flag is absent, null or false
StreamOff(raw) ==
    "stream" \notin raw.keys \/ raw.stream \in {JNull, JBool(FALSE)}

\* the message of the first rule, in the order MissingBody, EmptyPrompt,
\* PromptTooLong, StreamingRequired, that an object body violates ("" if it
\* violates none); the prompt of the body is absent or a string
FirstViolated(v, raw) ==
    IF raw.keys = {} THEN "No JSON body provided"
    ELSE IF BlankPrompt(raw) THEN "Prompt cannot be empty"
    ELSE IF len(strip(raw.prompt.s)) > MaxPromptLen THEN TooLongMessage(v)
    ELSE IF StreamOff(raw) THEN "stream parameter must be true"
    ELSE ""

\* C21: the validation checks are applied in the order MissingBody,
\* EmptyPrompt, PromptTooLong, StreamingRequired: a request that violates
\* several rules is answered with exactly one error frame, that of the first
\* rule it violates, and StreamingRequired is reported only for a valid
\* prompt.
C21_FirstViolatedRule ==
    \A c \in Conns :
        pc[c] # "idle" =>
            /\ (IsObject(req[c]) /\ ("prompt" \in req[c].keys => req[c].prompt.t = "str")
                   /\ FirstViolated(variant, req[c]) # "")
                   => OnlyFrame(c, FirstViolated(variant, req[c]), 400)
            /\ OnlyFrame(c, "stream parameter must be true", 400) => ValidPrompt(req[c])

\* a prompt of 5001 characters sent with stream false: PromptTooLong alone
C21_Witness ==
    \E c \in Conns :
        /\ pc[c] = "closed" /\ HasStringPrompt(req[c])
        /\ len(strip(req[c].prompt.s)) = MaxPromptLen + 1
        /\ "stream" \in req[c].keys /\ req[c].stream = JBool(FALSE)
        /\ OnlyFrame(c, TooLongMessage(variant), 400)

(***************************************************************************)
(* Pacing, checked under Spec.  trace[c] logs the frames and the pacing    *)
(* waits of connection c in the order in which they happen.                *)
(***************************************************************************)
IsSleep(e) == e.kind = "sleep"

\* C22: in the log of a connection a pacing wait comes only right after a
\* content frame; a content frame that is followed by anything is followed
\* by exactly one wait (an error frame of a fault apart); every content
\* frame but the first, and [DONE] after content, comes right after a wait;
\* nothing comes after [DONE]; the response to a rejected request has no
\* wait.  A content frame is yielded, so handed over, before the generator
\* goes on to the wait and the next frame.
C22_PacingOrder ==
    \A c \in Conns :
        LET t == trace[c] IN
        /\ \A i \in 1..Len(t) :
            /\ IsSleep(t[i]) => (i > 1 /\ IsDelta(t[i - 1]))
            /\ (IsDelta(t[i]) /\ i < Len(t)) =>
                   (IsSleep(t[i + 1]) \/ t[i + 1].kind = "error")
            /\ ((IsDelta(t[i]) \/ t[i].kind = "done") /\ i > 1) => IsSleep(t[i - 1])
            /\ t[i].kind = "done" => i = Len(t)
        /\ (pc[c] # "idle" /\ ~Accepted(c)) => Sleeps(c) = <<>>
        /\ pc[c] = "yielded" => (t # <<>> /\ IsDelta(t[Len(t)]))
        /\ pc[c] = "slept" => (t # <<>> /\ IsSleep(t[Len(t)]))

\* [DONE] just yielded, after the wait that follows the last of at least
\* two content frames
C22_Witness ==
    \E c \in Conns :
        LET t == trace[c] IN
        /\ Accepted(c) /\ pc[c] = "yielded_done"
        /\ Len(t) >= 5
        /\ t[Len(t)].kind = "done"
        /\ IsSleep(t[Len(t) - 1]) /\ IsDelta(t[Len(t) - 2])
        /\ IsSleep(t[Len(t) - 3]) /\ IsDelta(t[Len(t) - 4])

(***************************************************************************)
(* Exceptions before the stream begins, checked under Spec.                *)
(***************************************************************************)
\* bodies on which the handler raises whatever the Flask version: not
\* parseable, a truthy JSON value that is not an object, an object whose
\* prompt is not a string
MustRaise(raw) ==
    \/ raw.kind = "malformed"
    \/ raw.kind = "json" /\ raw.val.t # "obj" /\ Truthy(raw.val)
    \/ IsObject(raw) /\ raw.keys # {} /\ "prompt" \in raw.keys /\ raw.prompt.t # "str"

\* str(e) of the exception raised on such a body, or on a request without
\* a JSON content type
RaisedMessage(raw) ==
    CASE raw.kind = "malformed" -> "400 Bad Request"
      [] raw.kind = "none" -> "415 Unsupported Media Type"
      [] raw.val.t # "obj" -> AttributeError(raw.val, "get")
      [] OTHER -> AttributeError(raw.prompt, "strip")

\* C23: an exception raised in stream_endpoint before the stream begins is
\* caught by the handler and answered with HTTP 500, content type
\* text/event-stream and exactly one frame {"error": "Server error: <e>",
\* "code": 500}: no content frame, no [DONE], neither the synthesizer's
\* output nor chunks kept, and never the JSON answer of the generic
\* errorhandler.
C23_ExceptionBeforeStream ==
    \A c \in Conns :
        pc[c] # "idle" =>
            /\ MustRaise(req[c]) => resp[c].status = 500
            /\ resp[c].status = 500 =>
                /\ MustRaise(req[c]) \/ req[c].kind = "none"
                /\ resp[c].content_type = EventStream
                /\ trace[c] = <<ErrorFrame("Server error: " \o RaisedMessage(req[c]), 500)>>
                /\ pc[c] = "closed"
                /\ ~ran[c] /\ chunks[c] = <<>>

\* a prompt that is a number: .strip() raises, the answer is the 500 frame
C23_Witness ==
    \E c \in Conns :
        /\ pc[c] = "closed"
        /\ IsObject(req[c]) /\ req[c].prompt = JNum(5)
        /\ resp[c].status = 500
        /\ Len(trace[c]) = 1 /\ trace[c][1].kind = "error"

(***************************************************************************)
(* The two routes of streaming_llm_api.py, checked under SpecRoutes.       *)
(***************************************************************************)
\* C24: in streaming_llm_api.py a POST to the root and a POST to
\* /v1/chat/completions with the same body get the same status, the same
\* content type and headers and, read to the end, the same frames; both are
\* answered by stream_endpoint, never by a routing error.
C24_RootSameAsCompletions ==
    \A c, d \in Conns :
        (RoutePaths[c] = "/" /\ RoutePaths[d] = "/v1/chat/completions"
            /\ pc[c] # "idle" /\ pc[d] # "idle" /\ req[c] = req[d]) =>
            /\ resp[c] = resp[d]
            /\ resp[c].status \in {200, 400, 500}
            /\ IsPrefix(Frames(c), Frames(d)) \/ IsPrefix(Frames(d), Frames(c))
            /\ (pc[c] = "closed" /\ pc[d] = "closed") => trace[c] = trace[d]

\* the same accepted body posted to both paths, both streams read to [DONE]
C24_Witness ==
    \E c, d \in Conns :
        /\ RoutePaths[c] = "/" /\ RoutePaths[d] = "/v1/chat/completions"
        /\ req[c] = req[d]
        /\ Accepted(c) /\ Accepted(d)
        /\ pc[c] = "closed" /\ pc[d] = "closed"
        /\ HasDone(c) /\ HasDone(d)
        /\ Len(Deltas(c)) >= MinChunks

(***************************************************************************)
(* The chunks chunk_text returns, checked under SpecAll and SpecChunk.     *)
(***************************************************************************)
\* C25: chunk_text never returns an empty or whitespace-only chunk, for any
\* text and any chunk_size; so the test "if chunk.strip()" of the emitter
\* drops no chunk: the k-th content frame of a stream carries the k-th
\* chunk, and a completed stream has as many content frames as chunk_text
\* returned chunks.
C25_NoBlankChunk ==
    /\ called => \A i \in 1..Len(ret) : strip(ret[i]) # <<>>
    /\ \A c \in Conns :
        Accepted(c) =>
            /\ \A i \in 1..Len(chunks[c]) : strip(chunks[c][i]) # <<>>
            /\ idx[c] = Len(Deltas(c)) \/ (HasDone(c) /\ idx[c] = Len(chunks[c]))
            /\ HasDone(c) => Len(Deltas(c)) = Len(chunks[c])

\* a text with blanks before, between and after its words, cut in chunks
C25_Witness ==
    /\ called
    /\ Len(text) >= 5
    /\ IsSpace(text[1]) /\ IsSpace(text[Len(text)])
    /\ \E i \in 2..(Len(text) - 2) : IsSpace(text[i]) /\ IsSpace(text[i + 1])
    /\ Len(ret) >= 2

\* the length of the longest word of a chunk
LongestWord(chunk) ==
    Greatest({0} \cup {Len(split(chunk)[k]) : k \in 1..Len(split(chunk))})

\* C26: for N >= 1 the first chunk of chunk_text(text, N) has at most N
\* characters unless it is a single word longer than N; every later chunk
\* of two or more words has at most N + 1 characters; no chunk is longer
\* than max(N + 1, the length of its longest word).
C26_SizeBound ==
    (called /\ chunk_size >= 1) =>
        \A i \in 1..Len(ret) :
            /\ i = 1 =>
                   \/ len(ret[i]) <= chunk_size
                   \/ SingleWord(ret[i]) /\ len(ret[i]) > chunk_size
            /\ (i > 1 /\ ~SingleWord(ret[i])) => len(ret[i]) <= chunk_size + 1
            /\ len(ret[i]) <= chunk_size + 1 \/ len(ret[i]) <= LongestWord(ret[i])

\* a later chunk of two words that has N + 1 characters
C26_Witness ==
    /\ called /\ chunk_size >= 1
    /\ \E i \in 2..Len(ret) :
           ~SingleWord(ret[i]) /\ len(ret[i]) = chunk_size + 1

=============================================================================
